---- MODULE Spec2Model ----
(***************************************************************************)
(* GrpcStreamManager (src/src/lib.rs): the connect / reconnect cycle, the  *)
(* receive loop that dispatches each update of the subscription stream,    *)
(* and the reply to a heartbeat.                                           *)
(*                                                                         *)
(* One step of the model is the code that runs between two suspension      *)
(* points (.await) of connect() and reconnect(), or a call from one to the *)
(* other.  The outcome of each awaited operation of the transport (the     *)
(* subscribe call, the next item of the stream, the send of a heartbeat    *)
(* reply) is an input, chosen nondeterministically.                        *)
(***************************************************************************)
EXTENDS Integers, Sequences, FiniteSets, TLC

(***************************************************************************)
(* Bounds of the model.                                                    *)
(***************************************************************************)
\* Updates read from one stream instance.
MaxUpdates == 4
\* Stream instances established in one run.
MaxStreams == 12

(***************************************************************************)
(* Values fixed by GrpcStreamManager::new.                                 *)
(***************************************************************************)
\* max_reconnect_attempts: 10
max_reconnect_attempts == 10
\* reconnect_interval: Duration::from_secs(5), in seconds
reconnect_interval == 5
\* the cap of std::cmp::min(self.reconnect_attempts, 5)
BackoffCap == 5
\* SubscribeRequestPing { id: 1 }
PingId == 1

\* The endpoint strings a manager is built with.
Endpoints == {"ep"}
\* The subscription requests a caller passes to connect().
Requests == {"r1", "r2"}
\* The payloads of Transaction updates.
Payloads == {"A", "B"}

\* The update_oneof of a message: Transaction(tx), Ping, Pong, or anything
\* else (another variant, or None).
Update(kind, payload) == [kind |-> kind, payload |-> payload]

Updates ==
    {Update("Transaction", p) : p \in Payloads}
        \cup {Update("Ping", ""), Update("Pong", ""), Update("Other", "")}

VARIABLES
    pc,                 \* where the innermost active call stands
    depth,              \* connect() calls that have not returned
    endpoint,           \* self.endpoint
    is_connected,       \* self.is_connected
    reconnect_attempts, \* self.reconnect_attempts
    request,            \* the request of connect(), cloned for every call
    sub_request,        \* the request carried by the latest subscribe call
    subscribes,         \* subscribe calls submitted in the run
    streams,            \* stream instances established so far
    subscribe_tx,       \* the sending half held (a stream instance), 0: none
    stream,             \* the receiving half held (a stream instance), 0: none
    received,           \* the updates read from the current stream instance
    effects,            \* handler calls and sends made for that instance
    sleeps,             \* the backoff sleeps of the run, in seconds
    failures,           \* stream errors (Err items) seen in the run
    fault,              \* the latest failure signal of the transport
    result              \* what connect() returned

vars ==
    <<pc, depth, endpoint, is_connected, reconnect_attempts, request,
      sub_request, subscribes, streams, subscribe_tx, stream, received,
      effects, sleeps, failures, fault, result>>

manager == <<endpoint, is_connected, reconnect_attempts>>
history == <<received, effects, sleeps, failures>>
calls == <<sub_request, subscribes>>

(***************************************************************************)
(* Helpers computed as the code computes them.                             *)
(***************************************************************************)
Min(a, b) == IF a <= b THEN a ELSE b

\* Variant of Backoff: the ramp without its cap.
Backoff_NoCap(attempts) == reconnect_interval * attempts

\* let backoff = self.reconnect_interval * min(self.reconnect_attempts, 5)
Backoff(attempts) == reconnect_interval * Min(attempts, BackoffCap)

\* Variant of Exhausted: `>` for `>=`.
Exhausted_Strict(attempts) == attempts > max_reconnect_attempts

\* if self.reconnect_attempts >= self.max_reconnect_attempts
Exhausted(attempts) == attempts >= max_reconnect_attempts

\* self.tx_handler.as_ref()(tx, &self.endpoint)
HandlerCall(tx, ep, s) ==
    [op |-> "handler", payload |-> tx, endpoint |-> ep, id |-> 0, on |-> s]

\* subscribe_tx.send(SubscribeRequest { ping: Some(SubscribeRequestPing
\* { id: 1 }), ..Default::default() })
PingReply(s) ==
    [op |-> "send", payload |-> "", endpoint |-> "", id |-> PingId, on |-> s]

(***************************************************************************)
(* The state after GrpcStreamManager::new: connect() not yet called.       *)
(***************************************************************************)
Init ==
    /\ pc = "init"
    /\ depth = 0
    /\ endpoint \in Endpoints
    /\ is_connected = FALSE
    /\ reconnect_attempts = 0
    /\ request = "none"
    /\ sub_request = "none"
    /\ subscribes = 0
    /\ streams = 0
    /\ subscribe_tx = 0
    /\ stream = 0
    /\ received = <<>>
    /\ effects = <<>>
    /\ sleeps = <<>>
    /\ failures = 0
    /\ fault = "none"
    /\ result = "none"

(***************************************************************************)
(* connect(request), called by the owner of the manager: the request is    *)
(* cloned and the first subscribe call of the loop is submitted.           *)
(***************************************************************************)
Connect ==
    /\ pc = "init"
    /\ \E r \in Requests :
        /\ request' = r
        /\ sub_request' = r
    /\ subscribes' = subscribes + 1
    /\ depth' = 1
    /\ pc' = "subscribe"
    /\ UNCHANGED <<manager, streams, subscribe_tx, stream, history, fault,
                   result>>

\* Variant of SubscribeOk: the attempt counter is not reset.
SubscribeOk_NoReset ==
    /\ pc = "subscribe"
    /\ streams < MaxStreams
    /\ streams' = streams + 1
    /\ subscribe_tx' = streams + 1
    /\ stream' = streams + 1
    /\ is_connected' = TRUE
    /\ received' = <<>>
    /\ effects' = <<>>
    /\ fault' = "none"
    /\ pc' = "next"
    /\ UNCHANGED <<depth, endpoint, reconnect_attempts, request, calls,
                   sleeps, failures, result>>

(***************************************************************************)
(* subscribe_with_request(..).await succeeds: the two halves of a new      *)
(* stream instance are bound, the flag is set and the counter reset, and   *)
(* the receive loop awaits the first item.                                 *)
(***************************************************************************)
SubscribeOk ==
    /\ pc = "subscribe"
    /\ streams < MaxStreams
    /\ streams' = streams + 1
    /\ subscribe_tx' = streams + 1
    /\ stream' = streams + 1
    /\ is_connected' = TRUE
    /\ reconnect_attempts' = 0
    /\ received' = <<>>
    /\ effects' = <<>>
    /\ fault' = "none"
    /\ pc' = "next"
    /\ UNCHANGED <<depth, endpoint, request, calls, sleeps, failures,
                   result>>

\* Variant of SubscribeErr: a failed subscribe call is retried through
\* reconnect, as a stream error is.
SubscribeErr_Retry ==
    /\ pc = "subscribe"
    /\ fault' = "subscribe_err"
    /\ is_connected' = FALSE
    /\ pc' = "reconnect"
    /\ UNCHANGED <<depth, endpoint, reconnect_attempts, request, calls,
                   streams, subscribe_tx, stream, history, result>>

(***************************************************************************)
(* subscribe_with_request(..).await fails: `?` returns the error from this *)
(* connect(), and through `reconnect(..).await?` from every enclosing one. *)
(***************************************************************************)
SubscribeErr ==
    /\ pc = "subscribe"
    /\ fault' = "subscribe_err"
    /\ result' = "SubscribeError"
    /\ depth' = 0
    /\ pc' = "returned"
    /\ UNCHANGED <<manager, request, calls, streams, subscribe_tx, stream,
                   history>>

\* Variant of RecvTransaction: a payload equal to the one delivered last is
\* not delivered again.
RecvTransaction_Dedup ==
    /\ pc = "next"
    /\ Len(received) < MaxUpdates
    /\ \E p \in Payloads :
        /\ received' = Append(received, Update("Transaction", p))
        /\ effects' =
              IF effects /= <<>> /\ effects[Len(effects)].payload = p
              THEN effects
              ELSE Append(effects, HandlerCall(p, endpoint, stream))
    /\ UNCHANGED <<pc, depth, manager, request, calls, streams, subscribe_tx,
                   stream, sleeps, failures, fault, result>>

(***************************************************************************)
(* stream.next().await yields Ok(msg) with a Transaction: the handler is   *)
(* called with the payload and the endpoint, and the loop reads on.        *)
(***************************************************************************)
RecvTransaction ==
    /\ pc = "next"
    /\ Len(received) < MaxUpdates
    /\ \E p \in Payloads :
        /\ received' = Append(received, Update("Transaction", p))
        /\ effects' = Append(effects, HandlerCall(p, endpoint, stream))
    /\ UNCHANGED <<pc, depth, manager, request, calls, streams, subscribe_tx,
                   stream, sleeps, failures, fault, result>>

\* Variant of RecvPing: a Ping that follows a Ping is not answered again.
RecvPing_Suppress ==
    /\ pc = "next"
    /\ Len(received) < MaxUpdates
    /\ received' = Append(received, Update("Ping", ""))
    /\ IF received /= <<>> /\ received[Len(received)].kind = "Ping"
       THEN UNCHANGED <<effects, pc>>
       ELSE /\ effects' = Append(effects, PingReply(subscribe_tx))
            /\ pc' = "send"
    /\ UNCHANGED <<depth, manager, request, calls, streams, subscribe_tx,
                   stream, sleeps, failures, fault, result>>

(***************************************************************************)
(* stream.next().await yields Ok(msg) with a Ping: the reply is handed to  *)
(* the sending half, and the loop awaits the send.                         *)
(***************************************************************************)
RecvPing ==
    /\ pc = "next"
    /\ Len(received) < MaxUpdates
    /\ received' = Append(received, Update("Ping", ""))
    /\ effects' = Append(effects, PingReply(subscribe_tx))
    /\ pc' = "send"
    /\ UNCHANGED <<depth, manager, request, calls, streams, subscribe_tx,
                   stream, sleeps, failures, fault, result>>

\* subscribe_tx.send(..).await succeeds: the loop reads on.
SendOk ==
    /\ pc = "send"
    /\ pc' = "next"
    /\ UNCHANGED <<depth, manager, request, calls, streams, subscribe_tx,
                   stream, history, fault, result>>

(***************************************************************************)
(* subscribe_tx.send(..).await fails: `?` returns the error from connect() *)
(* (and from every enclosing one); the halves go out of scope.             *)
(***************************************************************************)
SendErr ==
    /\ pc = "send"
    /\ fault' = "send_err"
    /\ subscribe_tx' = 0
    /\ stream' = 0
    /\ result' = "SendError"
    /\ depth' = 0
    /\ pc' = "returned"
    /\ UNCHANGED <<manager, request, calls, streams, history>>

\* stream.next().await yields Ok(msg) with a Pong: nothing is done.
RecvPong ==
    /\ pc = "next"
    /\ Len(received) < MaxUpdates
    /\ received' = Append(received, Update("Pong", ""))
    /\ UNCHANGED <<pc, depth, manager, request, calls, streams, subscribe_tx,
                   stream, effects, sleeps, failures, fault, result>>

\* Variant of RecvOther: an unrecognized update clears the connected flag.
RecvOther_ClearsFlag ==
    /\ pc = "next"
    /\ Len(received) < MaxUpdates
    /\ received' = Append(received, Update("Other", ""))
    /\ is_connected' = FALSE
    /\ UNCHANGED <<pc, depth, endpoint, reconnect_attempts, request, calls,
                   streams, subscribe_tx, stream, effects, sleeps, failures,
                   fault, result>>

\* stream.next().await yields Ok(msg) with any other update: nothing is done.
RecvOther ==
    /\ pc = "next"
    /\ Len(received) < MaxUpdates
    /\ received' = Append(received, Update("Other", ""))
    /\ UNCHANGED <<pc, depth, manager, request, calls, streams, subscribe_tx,
                   stream, effects, sleeps, failures, fault, result>>

(***************************************************************************)
(* stream.next().await yields Err(err): both halves are dropped, the flag  *)
(* is cleared and reconnect(request.clone()) is called.                    *)
(***************************************************************************)
RecvErr ==
    /\ pc = "next"
    /\ fault' = "stream_err"
    /\ failures' = failures + 1
    /\ subscribe_tx' = 0
    /\ stream' = 0
    /\ is_connected' = FALSE
    /\ pc' = "reconnect"
    /\ UNCHANGED <<depth, endpoint, reconnect_attempts, request, calls,
                   streams, received, effects, sleeps, result>>

\* Variant of RecvEnd: the halves are bound outside the loop and are still
\* held while the next subscribe call is pending.
RecvEnd_KeepHalves ==
    /\ pc = "next"
    /\ fault' = "stream_end"
    /\ sub_request' = request
    /\ subscribes' = subscribes + 1
    /\ pc' = "subscribe"
    /\ UNCHANGED <<depth, manager, request, streams, subscribe_tx, stream,
                   history, result>>

(***************************************************************************)
(* stream.next().await yields None: the `while let` ends, the halves go    *)
(* out of scope with the body of the outer loop, and the loop submits the  *)
(* next subscribe call.                                                    *)
(***************************************************************************)
RecvEnd ==
    /\ pc = "next"
    /\ fault' = "stream_end"
    /\ subscribe_tx' = 0
    /\ stream' = 0
    /\ sub_request' = request
    /\ subscribes' = subscribes + 1
    /\ pc' = "subscribe"
    /\ UNCHANGED <<depth, manager, request, streams, history, result>>

(***************************************************************************)
(* reconnect(request) up to its sleep: either the attempts are exhausted   *)
(* and the error returns through every enclosing connect(), or the counter *)
(* is incremented and the backoff sleep starts.                            *)
(***************************************************************************)
Reconnect ==
    /\ pc = "reconnect"
    /\ IF Exhausted(reconnect_attempts)
       THEN /\ result' = "RetryExhausted"
            /\ depth' = 0
            /\ pc' = "returned"
            /\ UNCHANGED <<reconnect_attempts, sleeps>>
       ELSE /\ reconnect_attempts' = reconnect_attempts + 1
            /\ sleeps' = Append(sleeps, Backoff(reconnect_attempts + 1))
            /\ pc' = "sleep"
            /\ UNCHANGED <<depth, result>>
    /\ UNCHANGED <<endpoint, is_connected, request, calls, streams,
                   subscribe_tx, stream, received, effects, failures, fault>>

\* Variant of Wake: the counter is reset when the retry starts, not when it
\* succeeds.
Wake_Reset ==
    /\ pc = "sleep"
    /\ depth' = depth + 1
    /\ sub_request' = request
    /\ subscribes' = subscribes + 1
    /\ reconnect_attempts' = 0
    /\ pc' = "subscribe"
    /\ UNCHANGED <<endpoint, is_connected, request, streams, subscribe_tx,
                   stream, history, fault, result>>

\* Variant of Wake: the re-subscription carries a default request.
Wake_DefaultRequest ==
    /\ pc = "sleep"
    /\ depth' = depth + 1
    /\ sub_request' = "default"
    /\ subscribes' = subscribes + 1
    /\ pc' = "subscribe"
    /\ UNCHANGED <<manager, request, streams, subscribe_tx, stream, history,
                   fault, result>>

(***************************************************************************)
(* tokio::time::sleep(backoff).await is over: reconnect calls              *)
(* connect(request), which submits its first subscribe call.               *)
(***************************************************************************)
Wake ==
    /\ pc = "sleep"
    /\ depth' = depth + 1
    /\ sub_request' = request
    /\ subscribes' = subscribes + 1
    /\ pc' = "subscribe"
    /\ UNCHANGED <<manager, request, streams, subscribe_tx, stream, history,
                   fault, result>>

Next ==
    \/ Connect
    \/ SubscribeOk
    \/ SubscribeErr
    \/ RecvTransaction
    \/ RecvPing
    \/ SendOk
    \/ SendErr
    \/ RecvPong
    \/ RecvOther
    \/ RecvErr
    \/ RecvEnd
    \/ Reconnect
    \/ Wake

Spec == Init /\ [][Next]_vars

(***************************************************************************)
(* reconnect() taken on its own: it is entered, from the error branch of   *)
(* connect(), with any value of the attempt counter, and the streams that  *)
(* follow carry no update before they fail.                                *)
(***************************************************************************)
InitReconnect ==
    /\ pc = "reconnect"
    /\ depth = 1
    /\ endpoint \in Endpoints
    /\ is_connected = FALSE
    /\ reconnect_attempts \in 0..(max_reconnect_attempts + 1)
    /\ request \in Requests
    /\ sub_request = request
    /\ subscribes = 1
    /\ streams = 1
    /\ subscribe_tx = 0
    /\ stream = 0
    /\ received = <<>>
    /\ effects = <<>>
    /\ sleeps = <<>>
    /\ failures = 1
    /\ fault = "stream_err"
    /\ result = "none"

NextReconnect ==
    \/ Reconnect
    \/ Wake
    \/ SubscribeOk
    \/ SubscribeErr
    \/ RecvErr
    \/ RecvEnd

SpecReconnect == InitReconnect /\ [][NextReconnect]_vars

(***************************************************************************)
(* The runs in which every subscribe call establishes a stream.            *)
(***************************************************************************)
NextEstablished ==
    \/ Connect
    \/ SubscribeOk
    \/ RecvTransaction
    \/ RecvPing
    \/ SendOk
    \/ SendErr
    \/ RecvPong
    \/ RecvOther
    \/ RecvErr
    \/ RecvEnd
    \/ Reconnect
    \/ Wake

SpecEstablished == Init /\ [][NextEstablished]_vars

(***************************************************************************)
(* What the claims speak of.                                               *)
(***************************************************************************)
Last(s) == s[Len(s)]

IsTransaction(u) == u.kind = "Transaction"
IsHandlerCall(e) == e.op = "handler"
IsSend(e) == e.op = "send"

\* The stream instance the receive loop reads, or read last.
Instance == streams

\* connect() is between a successful subscribe and the end of its stream.
Streaming == pc \in {"next", "send"}

TxA == Update("Transaction", "A")
TxB == Update("Transaction", "B")
Ping == Update("Ping", "")
Pong == Update("Pong", "")
Other == Update("Other", "")

(***************************************************************************)
(* C1: on every stream, the handler has been called exactly once for each  *)
(* Transaction read, in the order read, each time with the endpoint of the *)
(* manager, and for nothing else: the handler calls made are, one for one  *)
(* and in order, the Transaction updates read, also once the stream has    *)
(* failed.                                                                 *)
(***************************************************************************)
C1_HandlerOncePerTransaction ==
    LET txs == SelectSeq(received, IsTransaction)
        hcs == SelectSeq(effects, IsHandlerCall)
    IN  /\ Len(hcs) = Len(txs)
        /\ \A i \in 1..Len(txs) :
            /\ hcs[i].payload = txs[i].payload
            /\ hcs[i].endpoint = endpoint

\* A stream that failed after B, Ping, B, A: the handler saw B, B, A.
C1_Witness ==
    /\ pc = "reconnect"
    /\ fault = "stream_err"
    /\ received = <<TxB, Ping, TxB, TxA>>
    /\ Len(SelectSeq(effects, IsHandlerCall)) = 3

(***************************************************************************)
(* C2: the handler calls and heartbeat replies made for a stream are, in   *)
(* order, one handler call per Transaction and one reply (id 1, on the     *)
(* sending half of that stream) per Ping read, and nothing for a Pong or   *)
(* another update; while a reply is being sent the Ping is the update read *)
(* last, so the reply is made before the next update is read.  For the     *)
(* stream Transaction(A), Ping, Transaction(B), Pong the effects are       *)
(* handler(A), one reply, handler(B).                                      *)
(***************************************************************************)
C2_EffectsFollowArrival ==
    LET seen == SelectSeq(received,
                          LAMBDA u : u.kind \in {"Transaction", "Ping"})
    IN  /\ Len(effects) = Len(seen)
        /\ \A i \in 1..Len(seen) :
            /\ effects[i].on = Instance
            /\ seen[i].kind = "Transaction" =>
                /\ effects[i].op = "handler"
                /\ effects[i].payload = seen[i].payload
            /\ seen[i].kind = "Ping" =>
                /\ effects[i].op = "send"
                /\ effects[i].id = 1
        /\ pc = "send" =>
            /\ received /= <<>>
            /\ Last(received) = Ping
            /\ Last(effects).op = "send"
        /\ received = <<TxA, Ping, TxB, Pong>> =>
            /\ Len(effects) = 3
            /\ effects[1].op = "handler" /\ effects[1].payload = "A"
            /\ effects[2].op = "send" /\ effects[2].id = 1
            /\ effects[3].op = "handler" /\ effects[3].payload = "B"

\* Scenario D has been read and the loop awaits the next update.
C2_Witness ==
    /\ pc = "next"
    /\ received = <<TxA, Ping, TxB, Pong>>
    /\ Len(SelectSeq(effects, IsSend)) = 1

(***************************************************************************)
(* C3: when the first three streams of a run have each failed and the      *)
(* fourth subscribe has succeeded, the backoff sleeps of the run are 5 s,  *)
(* 10 s, 15 s and the attempt counter is 0.                                *)
(***************************************************************************)
C3_ScenarioA ==
    (failures = 3 /\ streams = 4 /\ subscribes = 4 /\ pc = "next") =>
        /\ sleeps = <<5, 10, 15>>
        /\ reconnect_attempts = 0

(***************************************************************************)
(* C4: under failures that follow one another without a stream ending      *)
(* otherwise, the sleep after the 10th failure lasts 25 s, and the 11th    *)
(* failure makes connect() return RetryExhausted with no further sleep:    *)
(* there are never more than max_reconnect_attempts backoff sleeps.        *)
(***************************************************************************)
C4_ScenarioB ==
    (failures = streams /\ subscribes = streams) =>
        /\ Len(sleeps) >= 10 => sleeps[10] = 25
        /\ (failures = max_reconnect_attempts + 1 /\ pc /= "reconnect") =>
            /\ pc = "returned"
            /\ result = "RetryExhausted"
            /\ Len(sleeps) = max_reconnect_attempts

(***************************************************************************)
(* C5: a backoff sleep lasts base_interval * min(N, 5), N the attempt      *)
(* counter after the increment of reconnect, 1 <= N <= max_attempts: 5 s,  *)
(* 10 s, 15 s, 20 s, 25 s, and 25 s from then on.                          *)
(***************************************************************************)
C5_BackoffDelay ==
    pc = "sleep" =>
        /\ reconnect_attempts \in 1..max_reconnect_attempts
        /\ Last(sleeps) =
             <<5, 10, 15, 20, 25, 25, 25, 25, 25, 25>>[reconnect_attempts]

\* The seventh attempt in a row sleeps 25 s.
C5_Witness ==
    /\ pc = "sleep"
    /\ reconnect_attempts = 7
    /\ Last(sleeps) = 25

(***************************************************************************)
(* C6: a step of reconnect entered with the attempt counter at or above    *)
(* max_attempts returns RetryExhausted from the whole connect() cycle, and *)
(* leaves the counter as it is, sleeps no more and submits no subscribe    *)
(* call.                                                                   *)
(***************************************************************************)
C6_ExhaustedReturnsAtOnce ==
    [][(pc = "reconnect" /\ reconnect_attempts >= max_reconnect_attempts) =>
        /\ pc' = "returned"
        /\ result' = "RetryExhausted"
        /\ depth' = 0
        /\ reconnect_attempts' = reconnect_attempts
        /\ sleeps' = sleeps
        /\ subscribes' = subscribes
        /\ streams' = streams]_vars

\* reconnect was entered with the counter at max_attempts and has returned.
C6_Witness ==
    /\ pc = "returned"
    /\ result = "RetryExhausted"
    /\ reconnect_attempts = max_reconnect_attempts
    /\ sleeps = <<>>
    /\ subscribes = 1

(***************************************************************************)
(* C7: the connected flag is set only while the receive loop consumes an   *)
(* established stream: it is clear before the first subscribe succeeds,    *)
(* while a subscribe call is pending, during a backoff sleep and after     *)
(* connect() has returned.                                                 *)
(***************************************************************************)
C7_ConnectedOnlyWhileStreaming == is_connected => Streaming

(***************************************************************************)
(* C8: after the send of a heartbeat reply has failed, the flag is clear,  *)
(* both halves of the stream are released and reconnect is under way:      *)
(* connect() has not returned because of it.                               *)
(***************************************************************************)
C8_SendFailureReconnects ==
    fault = "send_err" =>
        /\ ~is_connected
        /\ subscribe_tx = 0 /\ stream = 0
        /\ pc \in {"reconnect", "sleep", "subscribe"}
        /\ result = "none"

(***************************************************************************)
(* C9: after the stream has ended the flag is clear and reconnect is       *)
(* entered, so that the next subscribe call follows a backoff sleep: the   *)
(* subscribe calls of a run number at most one more than its sleeps.       *)
(***************************************************************************)
C9_StreamEndBacksOff ==
    /\ fault = "stream_end" => ~is_connected
    /\ subscribes <= Len(sleeps) + 1

(***************************************************************************)
(* C10: connect() returns no success, and a failure only when the          *)
(* reconnect attempts are exhausted or a subscribe call has failed.        *)
(***************************************************************************)
C10_ReturnsOnlyExhaustedOrSetup ==
    pc = "returned" => result \in {"RetryExhausted", "SubscribeError"}

(***************************************************************************)
(* C11: a step in which a subscribe call succeeds leaves the attempt       *)
(* counter at 0, whatever it was before, and no other step decreases the   *)
(* counter.                                                                *)
(***************************************************************************)
C11_ResetOnlyOnSubscribeSuccess ==
    [][/\ streams' = streams + 1 => reconnect_attempts' = 0
       /\ reconnect_attempts' < reconnect_attempts =>
            /\ pc = "subscribe"
            /\ streams' = streams + 1]_vars

\* The subscribe call made after a sleep of 25 s (the counter stood at 5 or
\* more) has just succeeded.
C11_Witness ==
    /\ pc = "next"
    /\ received = <<>>
    /\ streams = 2
    /\ subscribes = 2
    /\ sleeps = <<25>>
    /\ reconnect_attempts = 0

(***************************************************************************)
(* C12: the attempt counter never exceeds max_attempts, and no step other  *)
(* than a successful subscribe makes it smaller.                           *)
(***************************************************************************)
C12_CounterBoundedMonotone ==
    /\ [](reconnect_attempts <= max_reconnect_attempts)
    /\ [][reconnect_attempts' >= reconnect_attempts
            \/ streams' = streams + 1]_vars

\* After a second stream error the counter has been incremented and the
\* subscribe call of the retry is pending.
C12_Witness ==
    /\ pc = "subscribe"
    /\ failures = 2
    /\ fault = "stream_err"
    /\ reconnect_attempts = 1

(***************************************************************************)
(* C13: a step in which a subscribe call fails makes connect() return that *)
(* error from every enclosing call, with the counter, the sleeps, the      *)
(* subscribe calls and the effects as they were; and nothing happens once  *)
(* connect() has returned it.                                              *)
(***************************************************************************)
C13_SubscribeFailureReturns ==
    [][/\ (pc = "subscribe" /\ fault' = "subscribe_err") =>
            /\ pc' = "returned"
            /\ result' = "SubscribeError"
            /\ depth' = 0
            /\ UNCHANGED <<reconnect_attempts, sleeps, subscribes, streams,
                           effects>>
       /\ fault = "subscribe_err" =>
            UNCHANGED <<reconnect_attempts, sleeps, subscribes, streams,
                        effects, pc>>]_vars

\* The subscribe call of the second reconnect has failed.
C13_Witness ==
    /\ pc = "returned"
    /\ result = "SubscribeError"
    /\ failures = 2
    /\ Len(sleeps) = 2
    /\ subscribes = 3
    /\ streams = 2

(***************************************************************************)
(* C14: every subscribe call carries the request passed to connect(), and  *)
(* no step changes that request once connect() has been called.            *)
(***************************************************************************)
C14_SameRequest ==
    /\ [](subscribes > 0 => sub_request = request /\ request \in Requests)
    /\ [][pc /= "init" => request' = request]_vars

\* The fourth subscribe call, after two stream errors and one stream end.
C14_Witness ==
    /\ pc = "subscribe"
    /\ subscribes = 4
    /\ failures = 2
    /\ streams = 3
    /\ sub_request = "r2"

(***************************************************************************)
(* C15: the calls of connect() that have not returned number at most two,  *)
(* however many stream errors the run has seen.                            *)
(***************************************************************************)
C15_DepthBounded == depth <= 2

(***************************************************************************)
(* C16: every step is a transition of the state machine Disconnected,      *)
(* Connecting, Streaming, Backoff, Failed: Disconnected or Backoff to      *)
(* Connecting, Connecting to Streaming, Streaming to Streaming, Streaming  *)
(* to Backoff on a stream error with attempts left, Streaming to Failed on *)
(* a stream error with the attempts exhausted, and no other.               *)
(***************************************************************************)
\* The state of the machine at a position of the code.  In "reconnect" the
\* stream error is being handled: the machine leaves Streaming when
\* reconnect has chosen between the sleep and the failure.
Phase(p) ==
    CASE p = "init" -> "Disconnected"
      [] p = "subscribe" -> "Connecting"
      [] p \in {"next", "send", "reconnect"} -> "Streaming"
      [] p = "sleep" -> "Backoff"
      [] p = "returned" -> "Failed"

C16_OnlySpecifiedTransitions ==
    [][LET from == Phase(pc)
           to == Phase(pc')
       IN  \/ from \in {"Disconnected", "Backoff"} /\ to = "Connecting"
           \/ from = "Connecting" /\ to = "Streaming"
           \/ from = "Streaming" /\ to = "Streaming"
           \/ /\ from = "Streaming" /\ to = "Backoff"
              /\ fault = "stream_err"
              /\ reconnect_attempts < max_reconnect_attempts
           \/ /\ from = "Streaming" /\ to = "Failed"
              /\ fault = "stream_err"
              /\ reconnect_attempts >= max_reconnect_attempts]_vars

(***************************************************************************)
(* C17: the halves held are those of the stream instance established       *)
(* last, or none; none is held while a subscribe call is pending; and a    *)
(* handler call or a reply is made only while the receiving half is held,  *)
(* for that instance, so never for an instance that has failed or ended.   *)
(***************************************************************************)
C17_OneStreamOpen ==
    /\ [](/\ subscribe_tx \in {0, streams}
          /\ stream \in {0, streams}
          /\ pc = "subscribe" => (subscribe_tx = 0 /\ stream = 0))
    /\ [][(effects' /= effects /\ effects' /= <<>>) =>
            /\ stream /= 0
            /\ stream' = stream
            /\ Last(effects').on = stream]_vars

\* The third stream, opened after one stream error and one stream end, has
\* had two of its updates acted on.
C17_Witness ==
    /\ pc = "next"
    /\ streams = 3
    /\ stream = 3
    /\ subscribe_tx = 3
    /\ failures = 1
    /\ subscribes = 3
    /\ Len(effects) = 2
    /\ \A i \in 1..2 : effects[i].on = 3

(***************************************************************************)
(* C18: a step that processes an update (a Transaction, a Ping, a Pong or  *)
(* another update is read and dispatched, or the send of a reply succeeds) *)
(* leaves the attempt counter, the connected flag, the endpoint and the    *)
(* request as they were.                                                   *)
(***************************************************************************)
C18_UpdateFrame ==
    [][(Len(received') = Len(received) + 1 \/ (pc = "send" /\ pc' = "next"))
        => UNCHANGED <<reconnect_attempts, is_connected, endpoint,
                       request>>]_vars

\* One update of each kind has been processed on a stream.
C18_Witness ==
    /\ pc = "next"
    /\ received = <<Other, TxA, Ping, Pong>>
    /\ is_connected
    /\ reconnect_attempts = 0

(***************************************************************************)
(* C19: from a fresh manager the attempt counter is 0 or 1, reconnect is   *)
(* entered with the counter at 0, every backoff sleep lasts base_interval, *)
(* and connect() never returns RetryExhausted.                             *)
(***************************************************************************)
C19_CounterZeroOrOne ==
    /\ reconnect_attempts \in {0, 1}
    /\ pc = "reconnect" => reconnect_attempts = 0
    /\ \A i \in 1..Len(sleeps) : sleeps[i] = reconnect_interval
    /\ result /= "RetryExhausted"

\* More stream errors than max_attempts, and the retrying goes on.
C19_Witness ==
    /\ pc = "sleep"
    /\ failures = max_reconnect_attempts + 1
    /\ Len(sleeps) = max_reconnect_attempts + 1
    /\ reconnect_attempts = 1
    /\ result = "none"

====
